---- MODULE Spec2Model ----
\* Reference-counted shared ownership as exercised by zhineng.cpp
\* (std::shared_ptr<int>: construction, copy, reset, use_count, by-value
\* call of test) and the transfer-of-ownership AutoPtr class template of
\* the notes (constructor, destructor, copy, assignment, dereference).
EXTENDS Integers, FiniteSets, Sequences, TLC

\* ---------------------------------------------------------------- bounds
MaxHandles == 3
MaxRes == 2
MaxAuto == 2
MaxCells == 3

\* ------------------------------------------------------------- constants
Null == 0
NoHandle == -1
SP == 0

Values == {1, 100}

\* no observer has returned since the last operation
NoRet == <<"none", 0>>
Locals == 1..MaxHandles
Handles == Locals \cup {SP}
Res == 1..MaxRes

VARIABLES handles, count, status, deallocs, val, pc, seen, lastOp, before, ret,
          aptr, cell, cval, adeletes, apc, aout, alastOp

svars == <<handles, count, status, deallocs, val, pc, seen, lastOp, before, ret>>
avars == <<aptr, cell, cval, adeletes, apc, aout, alastOp>>
vars == <<handles, count, status, deallocs, val, pc, seen, lastOp, before, ret,
          aptr, cell, cval, adeletes, apc, aout, alastOp>>

\* ------------------------------------------------- shared_ptr: observers
\* sp.use_count(): the count of the control block, 0 for an empty handle
use_count(h) == IF handles[h] = Null THEN 0 ELSE count[handles[h]]

\* !p : the handle stores no pointer
is_empty(h) == handles[h] = Null

\* the handle is a constructed object whose scope has not ended
live(h) == handles[h] # NoHandle

\* number of live handles currently pointing at resource r
owners(r) == Cardinality({h \in Handles : handles[h] = r})

\* the next resource `new` hands out
fresh == CHOOSE r \in Res : status[r] = "unalloc" /\ \A q \in Res : status[q] = "unalloc" => r <= q

canAlloc == \E r \in Res : status[r] = "unalloc"

\* ------------------------------------- shared_ptr: control block updates
\* a copy that forgets to count itself
AddOwnerStale(rs, r) ==
    rs

\* one more owner of r
AddOwner(rs, r) ==
    [rs EXCEPT !.count[r] = @ + 1]

\* a release that deletes the resource whatever the remaining count
DropOwnerEager(rs, r) ==
    [rs EXCEPT !.count[r] = @ - 1, !.status[r] = "freed", !.deallocs[r] = @ + 1]

\* a release that leaves the count of the sibling handles untouched
DropOwnerStale(rs, r) ==
    IF rs.count[r] = 1
    THEN [rs EXCEPT !.count[r] = 0, !.status[r] = "freed", !.deallocs[r] = @ + 1]
    ELSE rs

\* a release that never deletes the resource
DropOwnerLeak(rs, r) ==
    [rs EXCEPT !.count[r] = @ - 1]

\* one owner of r less; the last one deletes the resource
DropOwner(rs, r) ==
    LET c == rs.count[r] - 1 IN
    IF c = 0
    THEN [rs EXCEPT !.count[r] = 0, !.status[r] = "freed", !.deallocs[r] = @ + 1]
    ELSE [rs EXCEPT !.count[r] = c]

\* a freshly allocated resource whose first owner is not counted
NewOwnerZero(rs, r, v) ==
    [rs EXCEPT !.count[r] = 0, !.status[r] = "live", !.val[r] = v]

\* a freshly allocated resource r holding v with one owner
NewOwner(rs, r, v) ==
    [rs EXCEPT !.count[r] = 1, !.status[r] = "live", !.val[r] = v]

cur == [count |-> count, status |-> status, deallocs |-> deallocs, val |-> val]

Put(rs) ==
    /\ count' = rs.count
    /\ status' = rs.status
    /\ deallocs' = rs.deallocs
    /\ val' = rs.val

\* ------------------------------------------------- shared_ptr: operations
\* a construction that hands out the resource of an equal value already
\* allocated instead of a new one
make_shared_interned(h, v) ==
    /\ pc = "main"
    /\ handles[h] = NoHandle
    /\ canAlloc
    /\ IF \E r \in Res : status[r] = "live" /\ val[r] = v
       THEN LET r == CHOOSE q \in Res : status[q] = "live" /\ val[q] = v IN
            /\ handles' = [handles EXCEPT ![h] = r]
            /\ Put(AddOwner(cur, r))
       ELSE /\ handles' = [handles EXCEPT ![h] = fresh]
            /\ Put(NewOwner(cur, fresh, v))
    /\ lastOp' = <<"make_shared", h, h>>
    /\ before' = <<Null, 0>>
    /\ UNCHANGED <<pc, seen>>

\* auto sp1 = make_shared<int>(v);  shared_ptr<int> sp2(new int(v));
make_shared(h, v) ==
    /\ pc = "main"
    /\ handles[h] = NoHandle
    /\ canAlloc
    /\ handles' = [handles EXCEPT ![h] = fresh]
    /\ Put(NewOwner(cur, fresh, v))
    /\ lastOp' = <<"make_shared", h, h>>
    /\ before' = <<Null, 0>>
    /\ UNCHANGED <<pc, seen>>

\* std::shared_ptr<int> p1;
construct_empty(h) ==
    /\ pc = "main"
    /\ handles[h] = NoHandle
    /\ handles' = [handles EXCEPT ![h] = Null]
    /\ lastOp' = <<"construct_empty", h, h>>
    /\ before' = <<Null, 0>>
    /\ UNCHANGED <<count, status, deallocs, val, pc, seen>>

\* a copy that takes the resource away from its source
copy_transfer(h, s) ==
    /\ pc = "main"
    /\ handles[h] = NoHandle
    /\ live(s)
    /\ handles' = [handles EXCEPT ![h] = handles[s], ![s] = Null]
    /\ lastOp' = <<"copy", h, s>>
    /\ before' = <<handles[s], use_count(s)>>
    /\ UNCHANGED <<count, status, deallocs, val, pc, seen>>

\* std::shared_ptr<int> p2 = p1;
copy(h, s) ==
    /\ pc = "main"
    /\ handles[h] = NoHandle
    /\ live(s)
    /\ handles' = [handles EXCEPT ![h] = handles[s]]
    /\ Put(IF handles[s] = Null THEN cur ELSE AddOwner(cur, handles[s]))
    /\ lastOp' = <<"copy", h, s>>
    /\ before' = <<handles[s], use_count(s)>>
    /\ UNCHANGED <<pc, seen>>

\* a release that keeps the raw pointer and gives the resource up again
\* when called a second time
release_again(h) ==
    /\ pc = "main"
    /\ live(h)
    /\ handles' = [handles EXCEPT ![h] = Null]
    /\ Put(IF handles[h] # Null THEN DropOwner(cur, handles[h])
           ELSE IF lastOp = <<"release", h, h>> /\ before[1] \in Res /\ count[before[1]] > 0
                THEN DropOwner(cur, before[1])
                ELSE cur)
    /\ lastOp' = <<"release", h, h>>
    /\ before' = <<handles[h], use_count(h)>>
    /\ UNCHANGED <<pc, seen>>

\* p1.reset();
release(h) ==
    /\ pc = "main"
    /\ live(h)
    /\ handles' = [handles EXCEPT ![h] = Null]
    /\ Put(IF handles[h] = Null THEN cur ELSE DropOwner(cur, handles[h]))
    /\ lastOp' = <<"release", h, h>>
    /\ before' = <<handles[h], use_count(h)>>
    /\ UNCHANGED <<pc, seen>>

\* a reset that adopts the new value without giving up the old resource
reset_noRelease(h, v) ==
    /\ pc = "main"
    /\ live(h)
    /\ canAlloc
    /\ handles' = [handles EXCEPT ![h] = fresh]
    /\ Put(NewOwner(cur, fresh, v))
    /\ lastOp' = <<"reset", h, h>>
    /\ before' = <<handles[h], use_count(h)>>
    /\ UNCHANGED <<pc, seen>>

\* p1.reset(new int(v));
reset(h, v) ==
    /\ pc = "main"
    /\ live(h)
    /\ canAlloc
    /\ handles' = [handles EXCEPT ![h] = fresh]
    /\ Put(LET n == NewOwner(cur, fresh, v) IN
           IF handles[h] = Null THEN n ELSE DropOwner(n, handles[h]))
    /\ lastOp' = <<"reset", h, h>>
    /\ before' = <<handles[h], use_count(h)>>
    /\ UNCHANGED <<pc, seen>>

\* target = source;
assign(t, s) ==
    /\ pc = "main"
    /\ live(t)
    /\ live(s)
    /\ IF t = s
       THEN UNCHANGED <<handles, count, status, deallocs, val>>
       ELSE /\ handles' = [handles EXCEPT ![t] = handles[s]]
            /\ Put(LET d == IF handles[t] = Null THEN cur ELSE DropOwner(cur, handles[t]) IN
                   IF handles[s] = Null THEN d ELSE AddOwner(d, handles[s]))
    /\ lastOp' = <<"assign", t, s>>
    /\ before' = <<handles[t], use_count(t)>>
    /\ UNCHANGED <<pc, seen>>

\* the closing brace of the scope that declared the handle
destroy(h) ==
    /\ pc = "main"
    /\ h \in Locals
    /\ live(h)
    /\ handles' = [handles EXCEPT ![h] = NoHandle]
    /\ Put(IF handles[h] = Null THEN cur ELSE DropOwner(cur, handles[h]))
    /\ lastOp' = <<"destroy", h, h>>
    /\ before' = <<handles[h], use_count(h)>>
    /\ UNCHANGED <<pc, seen>>

\* a call of test that binds the parameter without copying the handle
test_call_noCopy(h) ==
    /\ pc = "main"
    /\ h \in Locals
    /\ live(h)
    /\ handles' = [handles EXCEPT ![SP] = Null]
    /\ pc' = "test"
    /\ seen' = use_count(h)
    /\ lastOp' = <<"test_call", h, h>>
    /\ before' = <<handles[h], use_count(h)>>
    /\ UNCHANGED <<count, status, deallocs, val>>

\* test(sp5): the parameter sp is copy-constructed from the argument and
\* the routine prints sp.use_count()
test_call(h) ==
    /\ pc = "main"
    /\ h \in Locals
    /\ live(h)
    /\ handles' = [handles EXCEPT ![SP] = handles[h]]
    /\ Put(IF handles[h] = Null THEN cur ELSE AddOwner(cur, handles[h]))
    /\ pc' = "test"
    /\ seen' = IF handles[h] = Null THEN 0 ELSE count[handles[h]] + 1
    /\ lastOp' = <<"test_call", h, h>>
    /\ before' = <<handles[h], use_count(h)>>

\* a return from test that forgets to destroy the parameter
test_return_noDestroy ==
    /\ pc = "test"
    /\ handles' = [handles EXCEPT ![SP] = NoHandle]
    /\ pc' = "main"
    /\ seen' = 0
    /\ lastOp' = <<"test_return", lastOp[2], lastOp[2]>>
    /\ before' = before
    /\ UNCHANGED <<count, status, deallocs, val>>

\* the closing brace of test: the parameter sp is destroyed
test_return ==
    /\ pc = "test"
    /\ handles' = [handles EXCEPT ![SP] = NoHandle]
    /\ Put(IF handles[SP] = Null THEN cur ELSE DropOwner(cur, handles[SP]))
    /\ pc' = "main"
    /\ seen' = 0
    /\ lastOp' = <<"test_return", lastOp[2], lastOp[2]>>
    /\ before' = before

\* a use_count that receives its handle by value and never gives the
\* copy up
observe_use_count_counting(h) ==
    /\ pc = "main"
    /\ live(h)
    /\ ret' = <<"use_count", use_count(h)>>
    /\ lastOp' = <<"use_count", h, h>>
    /\ before' = <<handles[h], use_count(h)>>
    /\ Put(IF handles[h] = Null THEN cur ELSE AddOwner(cur, handles[h]))
    /\ UNCHANGED <<handles, pc, seen>>

\* cout << p2.use_count();   the handle is only read
observe_use_count(h) ==
    /\ pc = "main"
    /\ live(h)
    /\ ret' = <<"use_count", use_count(h)>>
    /\ lastOp' = <<"use_count", h, h>>
    /\ before' = <<handles[h], use_count(h)>>
    /\ UNCHANGED <<handles, count, status, deallocs, val, pc, seen>>

\* if(!p1)   the handle is only read
observe_is_empty(h) ==
    /\ pc = "main"
    /\ live(h)
    /\ ret' = <<"is_empty", is_empty(h)>>
    /\ lastOp' = <<"is_empty", h, h>>
    /\ before' = <<handles[h], use_count(h)>>
    /\ UNCHANGED <<handles, count, status, deallocs, val, pc, seen>>

\* ------------------------------------------------------------- AutoPtr
Autos == 1..MaxAuto
Cells == 1..MaxCells

\* the next cell `new` hands out
afresh == CHOOSE c \in Cells : cell[c] = "unalloc" /\ \A q \in Cells : cell[q] = "unalloc" => c <= q

acanAlloc == \E c \in Cells : cell[c] = "unalloc"

acur == [cell |-> cell, adeletes |-> adeletes]

\* delete p;  (delete of a null pointer does nothing)
Delete(cs, p) ==
    IF p = Null THEN cs
    ELSE [cs EXCEPT !.cell[p] = "deleted", !.adeletes[p] = @ + 1]

APut(cs) ==
    /\ cell' = cs.cell
    /\ adeletes' = cs.adeletes

\* AutoPtr<int> a(new int(v));
AutoPtr_new(a, v) ==
    /\ apc = "run"
    /\ aptr[a] = NoHandle
    /\ acanAlloc
    /\ aptr' = [aptr EXCEPT ![a] = afresh]
    /\ cell' = [cell EXCEPT ![afresh] = "live"]
    /\ cval' = [cval EXCEPT ![afresh] = v]
    /\ alastOp' = <<"new", a, a>>
    /\ UNCHANGED <<adeletes, apc, aout>>

\* AutoPtr<int> a;   (p defaults to nullptr)
AutoPtr_null(a) ==
    /\ apc = "run"
    /\ aptr[a] = NoHandle
    /\ aptr' = [aptr EXCEPT ![a] = Null]
    /\ alastOp' = <<"null", a, a>>
    /\ UNCHANGED <<cell, cval, adeletes, apc, aout>>

\* ~AutoPtr()
AutoPtr_dtor(a) ==
    /\ apc = "run"
    /\ aptr[a] # NoHandle
    /\ APut(Delete(acur, aptr[a]))
    /\ aptr' = [aptr EXCEPT ![a] = NoHandle]
    /\ alastOp' = <<"dtor", a, a>>
    /\ UNCHANGED <<cval, apc, aout>>

\* a copy that leaves the pointer in the source as well
AutoPtr_copy_shallow(a, other) ==
    /\ apc = "run"
    /\ aptr[a] = NoHandle
    /\ aptr[other] # NoHandle
    /\ aptr' = [aptr EXCEPT ![a] = aptr[other]]
    /\ alastOp' = <<"copy", a, other>>
    /\ UNCHANGED <<cell, cval, adeletes, apc, aout>>

\* AutoPtr(const AutoPtr& other)
AutoPtr_copy(a, other) ==
    /\ apc = "run"
    /\ aptr[a] = NoHandle
    /\ aptr[other] # NoHandle
    /\ aptr' = [aptr EXCEPT ![a] = aptr[other], ![other] = Null]
    /\ alastOp' = <<"copy", a, other>>
    /\ UNCHANGED <<cell, cval, adeletes, apc, aout>>

\* the pointer of each AutoPtr after  a = other
AssignPtr(a, other) ==
    IF a # other
    THEN [aptr EXCEPT ![a] = aptr[other], ![other] = Null]
    ELSE aptr

\* an assignment without the  this != &other  test
AssignHeapNoGuard(a, other) ==
    Delete(acur, aptr[a])

\* the heap after  a = other
AssignHeap(a, other) ==
    IF a # other
    THEN Delete(acur, aptr[a])
    ELSE acur

\* AutoPtr& operator=(const AutoPtr& other)
AutoPtr_assign(a, other) ==
    /\ apc = "run"
    /\ aptr[a] # NoHandle
    /\ aptr[other] # NoHandle
    /\ APut(AssignHeap(a, other))
    /\ aptr' = AssignPtr(a, other)
    /\ alastOp' = <<"assign", a, other>>
    /\ UNCHANGED <<cval, apc, aout>>

\* what  *ptr  can yield: the stored value of a live cell; for a null
\* pointer or a deleted cell the behaviour is undefined (the process is
\* killed, or some value is read)
DerefOutcomes(p) ==
    IF p # Null /\ cell[p] = "live"
    THEN {<<"value", cval[p]>>}
    ELSE {<<"crash", 0>>} \cup {<<"garbage", g>> : g \in Values \cup {0}}

\* T& operator*() const
AutoPtr_deref(a) ==
    /\ apc = "run"
    /\ aptr[a] # NoHandle
    /\ \E o \in DerefOutcomes(aptr[a]) :
         /\ aout' = o
         /\ apc' = IF o[1] = "crash" THEN "crashed" ELSE "run"
    /\ alastOp' = <<"deref", a, a>>
    /\ UNCHANGED <<aptr, cell, cval, adeletes>>

\* T* operator->() const
AutoPtr_arrow(a) ==
    /\ apc = "run"
    /\ aptr[a] # NoHandle
    /\ aout' = <<"ptr", aptr[a]>>
    /\ alastOp' = <<"arrow", a, a>>
    /\ UNCHANGED <<aptr, cell, cval, adeletes, apc>>

SInit ==
    /\ handles = [h \in Handles |-> NoHandle]
    /\ count = [r \in Res |-> 0]
    /\ status = [r \in Res |-> "unalloc"]
    /\ deallocs = [r \in Res |-> 0]
    /\ val = [r \in Res |-> 0]
    /\ pc = "main"
    /\ seen = 0
    /\ lastOp = <<"init", 1, 1>>
    /\ before = <<Null, 0>>
    /\ ret = NoRet

AInit ==
    /\ aptr = [a \in Autos |-> NoHandle]
    /\ cell = [c \in Cells |-> "unalloc"]
    /\ cval = [c \in Cells |-> 0]
    /\ adeletes = [c \in Cells |-> 0]
    /\ apc = "run"
    /\ aout = <<"none", 0>>
    /\ alastOp = <<"init", 1, 1>>

Init == SInit /\ AInit

Next ==
    \/ \E h \in Locals, v \in Values : make_shared(h, v) /\ ret' = NoRet /\ UNCHANGED avars
    \/ \E h \in Locals : construct_empty(h) /\ ret' = NoRet /\ UNCHANGED avars
    \/ \E h \in Locals, s \in Locals : copy(h, s) /\ ret' = NoRet /\ UNCHANGED avars
    \/ \E h \in Locals : release(h) /\ ret' = NoRet /\ UNCHANGED avars
    \/ \E h \in Locals, v \in Values : reset(h, v) /\ ret' = NoRet /\ UNCHANGED avars
    \/ \E t \in Locals, s \in Locals : assign(t, s) /\ ret' = NoRet /\ UNCHANGED avars
    \/ \E h \in Locals : destroy(h) /\ ret' = NoRet /\ UNCHANGED avars
    \/ \E h \in Locals : test_call(h) /\ ret' = NoRet /\ UNCHANGED avars
    \/ test_return /\ ret' = NoRet /\ UNCHANGED avars
    \/ \E h \in Locals : observe_use_count(h) /\ UNCHANGED avars
    \/ \E h \in Locals : observe_is_empty(h) /\ UNCHANGED avars

Spec == Init /\ [][Next]_vars

ANext ==
    \/ \E a \in Autos, v \in Values : AutoPtr_new(a, v) /\ UNCHANGED svars
    \/ \E a \in Autos : AutoPtr_null(a) /\ UNCHANGED svars
    \/ \E a \in Autos : AutoPtr_dtor(a) /\ UNCHANGED svars
    \/ \E a \in Autos, other \in Autos : AutoPtr_copy(a, other) /\ UNCHANGED svars
    \/ \E a \in Autos, other \in Autos : AutoPtr_assign(a, other) /\ UNCHANGED svars
    \/ \E a \in Autos : AutoPtr_deref(a) /\ UNCHANGED svars
    \/ \E a \in Autos : AutoPtr_arrow(a) /\ UNCHANGED svars

SpecAuto == Init /\ [][ANext]_vars

\* ------------------------------------------------------------ properties
\* C1: in every reachable state the shared count of each resource equals
\* the number of live handles pointing at it, and use_count of each of
\* those handles returns that number.
CountEqualsOwners ==
    /\ \A r \in Res : count[r] = owners(r)
    /\ \A h \in Handles : handles[h] \in Res => use_count(h) = owners(handles[h])

\* C1 witness: after a release, two handles still share one resource and
\* its count is 2.
CountEqualsOwnersSeen ==
    /\ lastOp[1] = "release"
    /\ before[2] = 3
    /\ \E r \in Res : owners(r) = 2 /\ count[r] = 2

\* C2: a resource is deallocated exactly in the step in which its count
\* goes from 1 to 0, never a second time, and never while a handle still
\* owns it.
DeallocExactlyAtLastRelease ==
    [][\A r \in Res :
         /\ (deallocs'[r] # deallocs[r]) <=> (count[r] = 1 /\ count'[r] = 0)
         /\ deallocs'[r] \in {deallocs[r], deallocs[r] + 1}
         /\ deallocs'[r] <= 1
         /\ (status'[r] = "freed") <=> (deallocs'[r] = 1)
         /\ (status'[r] = "freed") => \A h \in Handles : handles'[h] # r]_vars

\* C2 witness: the last owner was released and its resource is freed once,
\* while another resource is still owned.
DeallocSeen ==
    /\ lastOp[1] \in {"release", "destroy"}
    /\ before[1] \in Res
    /\ before[2] = 1
    /\ status[before[1]] = "freed"
    /\ deallocs[before[1]] = 1
    /\ \E q \in Res : status[q] = "live" /\ count[q] = 2

SelfAssignIsNoOp ==
    [][\A a \in Autos :
         alastOp' = <<"assign", a, a>>
         => /\ aptr' = aptr
            /\ cell' = cell
            /\ cval' = cval
            /\ adeletes' = adeletes]_vars

\* C5 witness: an owning AutoPtr was assigned to itself and still holds
\* its live cell.
SelfAssignSeen ==
    /\ alastOp[1] = "assign"
    /\ alastOp[2] = alastOp[3]
    /\ aptr[alastOp[2]] \in Cells
    /\ cell[aptr[alastOp[2]]] = "live"
    /\ cval[aptr[alastOp[2]]] = 100

\* C6: reset(h, v) leaves h the sole owner (use_count 1) of a freshly
\* allocated resource holding v; an empty h releases nothing, an owning h
\* costs its previous resource exactly one owner, that resource being
\* deallocated iff h was its last owner, and siblings keep it.
ResetTakesSoleOwnership ==
    [][\A h \in Locals :
         lastOp'[1] = "reset" /\ lastOp'[2] = h
         => /\ handles'[h] \in Res
            /\ status[handles'[h]] = "unalloc"
            /\ status'[handles'[h]] = "live"
            /\ val'[handles'[h]] \in Values
            /\ use_count(h)' = 1
            /\ \A g \in Handles \ {h} : handles'[g] = handles[g]
            /\ \A r \in Res \ {handles[h], handles'[h]} :
                 count'[r] = count[r] /\ status'[r] = status[r]
            /\ handles[h] \in Res
               => /\ count'[handles[h]] = count[handles[h]] - 1
                  /\ (status'[handles[h]] = "freed") <=> (count[handles[h]] = 1)
                  /\ deallocs'[handles[h]] = IF count[handles[h]] = 1 THEN 1 ELSE 0]_vars

\* C6 witness: a handle that shared a resource was reset; it now is sole
\* owner of a new resource and the sibling keeps the old one.
ResetSeen ==
    /\ lastOp[1] = "reset"
    /\ before[1] \in Res
    /\ before[2] = 2
    /\ use_count(lastOp[2]) = 1
    /\ handles[lastOp[2]] # before[1]
    /\ status[before[1]] = "live"
    /\ count[before[1]] = 1

\* C7: a copy of a non-empty handle with count n references the same
\* resource and both handles then report n + 1; a copy of an empty handle
\* is empty and changes no count.
CopyIncrementsCount ==
    [][\A h \in Locals, s \in Locals :
         lastOp' = <<"copy", h, s>>
         => /\ handles'[h] = handles[s]
            /\ handles'[s] = handles[s]
            /\ IF handles[s] \in Res
               THEN /\ use_count(h)' = use_count(s) + 1
                    /\ use_count(s)' = use_count(s) + 1
               ELSE /\ is_empty(h)'
                    /\ count' = count]_vars

\* C7 witness: a sole owner was copied; original and copy both report 2.
CopySeen ==
    /\ lastOp[1] = "copy"
    /\ before[2] = 1
    /\ use_count(lastOp[2]) = 2
    /\ use_count(lastOp[3]) = 2
    /\ handles[lastOp[2]] = handles[lastOp[3]]

\* C8: dereferencing an empty AutoPtr yields the InvalidAccess error and
\* the program goes on with its state unchanged; dereferencing an owning
\* one yields the stored value.
DerefEmptyIsInvalidAccess ==
    alastOp[1] = "deref"
    => IF aptr[alastOp[2]] = Null
       THEN aout[1] = "InvalidAccess" /\ apc = "run"
       ELSE aout = <<"value", cval[aptr[alastOp[2]]]>>

ReleaseOfEmptyIsNoOp ==
    [][\A a \in Locals :
         (lastOp' = <<"release", a, a>> /\ handles[a] = Null)
         => /\ handles' = handles
            /\ count' = count
            /\ status' = status
            /\ deallocs' = deallocs
            /\ val' = val
            /\ pc' = pc]_vars

\* C11 witness: an empty handle was released while a sibling resource is
\* still shared by two handles.
ReleaseOfEmptySeen ==
    /\ lastOp[1] = "release"
    /\ before = <<Null, 0>>
    /\ is_empty(lastOp[2])
    /\ \E r \in Res : status[r] = "live" /\ count[r] = 2 /\ owners(r) = 2

AllReleased == \A h \in Handles : handles[h] \in {Null, NoHandle}

\* C14: once every handle is released or out of scope, every resource
\* that was allocated is deallocated (once), and every handle still in
\* scope is empty.
NoLeak ==
    /\ \A r \in Res : status[r] = "live" => \E h \in Handles : handles[h] = r
    /\ AllReleased
       => /\ \A r \in Res : /\ status[r] # "live"
                            /\ count[r] = 0
                            /\ status[r] = "freed" => deallocs[r] = 1
          /\ \A h \in Handles : live(h) => (is_empty(h) /\ use_count(h) = 0)

\* C14 witness: every resource of the run was allocated and is freed
\* again, the last handle having gone out of scope.
NoLeakSeen ==
    /\ AllReleased
    /\ lastOp[1] = "destroy"
    /\ before[2] = 1
    /\ \A r \in Res : status[r] = "freed" /\ deallocs[r] = 1
    /\ \E h \in Locals : handles[h] = Null

\* C15: no live handle references a deallocated resource, and a resource
\* whose count has reached 0 is never owned by any handle again.
NoDanglingOwner ==
    /\ [](\A h \in Handles : handles[h] \in Res => status[handles[h]] = "live")
    /\ [][\A r \in Res :
            status[r] = "freed"
            => /\ status'[r] = "freed"
               /\ count'[r] = 0
               /\ \A h \in Handles : handles'[h] # r]_vars

\* C15 witness: after a copy, a freed resource stays unowned while the
\* copied handle shares a live one.
NoDanglingOwnerSeen ==
    /\ lastOp[1] = "copy"
    /\ \E r \in Res : status[r] = "freed" /\ \A h \in Handles : handles[h] # r
    /\ handles[lastOp[2]] \in Res
    /\ status[handles[lastOp[2]]] = "live"

\* the same for the AutoPtr class: no AutoPtr holds a deleted cell
AutoPtrNeverDangles ==
    \A a \in Autos : aptr[a] \in Cells => cell[aptr[a]] = "live"

\* the handles an operation names, and the parameter of test
Involved(op) == {op[2], op[3], SP}

\* C16: an operation changes the counts only of the resources its handles
\* owned before or own after it and leaves the other handles unchanged;
\* a construction or reset gives its handle a resource no other handle
\* has, whatever value it holds.
CountsAreIndependent ==
    [][/\ \A g \in Handles \ Involved(lastOp') : handles'[g] = handles[g]
       /\ \A r \in Res :
            (\A h \in Involved(lastOp') : handles[h] # r /\ handles'[h] # r)
            => /\ count'[r] = count[r]
               /\ status'[r] = status[r]
               /\ deallocs'[r] = deallocs[r]
               /\ val'[r] = val[r]
       /\ lastOp'[1] \in {"make_shared", "reset"}
          => /\ handles'[lastOp'[2]] \in Res
             /\ count'[handles'[lastOp'[2]]] = 1
             /\ \A g \in Handles \ {lastOp'[2]} : handles'[g] # handles'[lastOp'[2]]]_vars

\* C16 witness: two separately constructed resources both hold 100; one
\* is shared by two handles, the other still has count 1.
CountsAreIndependentSeen ==
    /\ lastOp[1] = "copy"
    /\ \E r \in Res, q \in Res :
         /\ r # q
         /\ status[r] = "live" /\ status[q] = "live"
         /\ val[r] = 100 /\ val[q] = 100
         /\ count[r] = 2 /\ count[q] = 1

\* C17: use_count and is_empty change no handle, no count and no
\* resource, and what they return is what a second call right after
\* returns.
ObserversArePure ==
    [][\A h \in Locals :
         /\ lastOp' = <<"use_count", h, h>>
            => /\ UNCHANGED <<handles, count, status, deallocs, val, pc>>
               /\ ret' = <<"use_count", use_count(h)'>>
               /\ ret'[2] = IF handles[h] = Null THEN 0 ELSE owners(handles[h])
         /\ lastOp' = <<"is_empty", h, h>>
            => /\ UNCHANGED <<handles, count, status, deallocs, val, pc>>
               /\ ret' = <<"is_empty", is_empty(h)'>>]_vars

\* C17 witness: use_count was read on a handle that shares its resource
\* and returned 2, the count still being 2.
ObserversArePureSeen ==
    /\ lastOp[1] = "use_count"
    /\ ret = <<"use_count", 2>>
    /\ use_count(lastOp[2]) = 2
    /\ owners(handles[lastOp[2]]) = 2

TypeOK ==
    /\ handles \in [Handles -> {NoHandle, Null} \cup Res]
    /\ count \in [Res -> 0..(MaxHandles + 1)]
    /\ deallocs \in [Res -> 0..1]

====
